---- MODULE Spec2Model ----
(* Model of the picture-processing unit's address port, control register,  *)
(* nametable mirroring and buffered data-port read (src/src/ppu.rs).       *)
EXTENDS Integers, Naturals, Sequences, FiniteSets, TLC

VARIABLES value, high_ptr, ctrl, internal_data_buf, chr_rom, mirroring, vram,
          palette_table, oam_data, panic, last, nwrites, advances

vars == <<value, high_ptr, ctrl, internal_data_buf, chr_rom, mirroring, vram,
          palette_table, oam_data, panic, last, nwrites, advances>>

(***************************************************************************)
(* Bounds of the model.                                                    *)
(***************************************************************************)
\* number of address advances (data-port reads and direct increments) explored
MaxAdvances == 2
\* the count of address-port writes since construction / reset_latch is kept
\* modulo 2 * MaxWritePairs (an even modulus keeps its parity exact)
MaxWritePairs == 2
\* largest character-page count of the cartridge the engine is built from
MaxChrPages == 1
\* number of nametable cells the owner stores into through the public field
MaxVramWrites == 1

(***************************************************************************)
(* Program constants.                                                      *)
(***************************************************************************)
CHR_ROM_PAGE_SIZE == 8192
VRAM_SIZE == 2048
VRAM_ADD_INCREMENT == 4
ADDR_MASK == 16383
MIRROR_DOWN_MASK == 12287

Byte == 0..255
NoByte == -1

\* bitwise and of two naturals, bit by bit
RECURSIVE BitAnd(_, _)
BitAnd(a, b) ==
    IF a = 0 \/ b = 0 THEN 0
    ELSE (IF a % 2 = 1 /\ b % 2 = 1 THEN 1 ELSE 0) + 2 * BitAnd(a \div 2, b \div 2)

\* u8::wrapping_add
wrapping_add(a, b) == (a + b) % 256

(***************************************************************************)
(* AddrRegister: value is <<high byte, low byte>>.                         *)
(***************************************************************************)
get(v) == v[1] * 256 + v[2]

set(data) == <<(data \div 256) % 256, BitAnd(data, 255)>>

\* mirror_down without the mask
mirror_down_unmasked(v) == v

\* the mask applied after a write or an increment
mirror_down(v) == IF get(v) > 16383 THEN set(BitAnd(get(v), ADDR_MASK)) ELSE v

\* update that never flips the flip-flop
update_noflip(v, hp, data) ==
    LET w == IF hp THEN <<data, v[2]>> ELSE <<v[1], data>>
    IN  [value |-> mirror_down(w), high_ptr |-> hp]

update(v, hp, data) ==
    LET w == IF hp THEN <<data, v[2]>> ELSE <<v[1], data>>
    IN  [value |-> mirror_down(w), high_ptr |-> ~hp]

\* increment that leaves the sum unmasked
increment_unmasked(v, inc) ==
    LET lo == v[2]
        nl == wrapping_add(v[2], inc)
        nh == IF lo > nl THEN wrapping_add(v[1], 1) ELSE v[1]
    IN  <<nh, nl>>

\* increment that drops the carry into the high byte
increment_nocarry(v, inc) == mirror_down(<<v[1], wrapping_add(v[2], inc)>>)

increment(v, inc) ==
    LET lo == v[2]
        nl == wrapping_add(v[2], inc)
        nh == IF lo > nl THEN wrapping_add(v[1], 1) ELSE v[1]
    IN  mirror_down(<<nh, nl>>)

(***************************************************************************)
(* ControlRegister                                                         *)
(***************************************************************************)
\* vram_addr_increment testing the whole bitfield instead of the increment bit
vram_addr_increment_anybit(bits) == IF bits = 0 THEN 1 ELSE 32

vram_addr_increment(bits) ==
    IF BitAnd(bits, VRAM_ADD_INCREMENT) # VRAM_ADD_INCREMENT THEN 1 ELSE 32

(***************************************************************************)
(* PPU::mirror_vram_addr                                                   *)
(***************************************************************************)
\* mirror_vram_addr folding tables 2 and 3 by one bank only in Vertical mode
mirror_vram_addr_vertical_1k(m, addr) ==
    LET mirrored_vram == BitAnd(addr, MIRROR_DOWN_MASK)
        vram_index == mirrored_vram - 8192
        name_table == vram_index \div 1024
    IN  CASE m = "Vertical" /\ name_table \in {2, 3} -> vram_index - 1024
          [] m = "Horizontal" /\ name_table = 2 -> vram_index - 1024
          [] m = "Horizontal" /\ name_table = 1 -> vram_index - 1024
          [] m = "Horizontal" /\ name_table = 3 -> vram_index - 2048
          [] OTHER -> vram_index

\* mirror_vram_addr leaving table 1 unfolded in Horizontal mode
mirror_vram_addr_horizontal_t1(m, addr) ==
    LET mirrored_vram == BitAnd(addr, MIRROR_DOWN_MASK)
        vram_index == mirrored_vram - 8192
        name_table == vram_index \div 1024
    IN  CASE m = "Vertical" /\ name_table \in {2, 3} -> vram_index - 2048
          [] m = "Horizontal" /\ name_table = 2 -> vram_index - 1024
          [] m = "Horizontal" /\ name_table = 3 -> vram_index - 2048
          [] OTHER -> vram_index

\* mirror_vram_addr masking to 14 bits without clearing bit 12
mirror_vram_addr_mask14(m, addr) ==
    LET mirrored_vram == BitAnd(addr, ADDR_MASK)
        vram_index == mirrored_vram - 8192
        name_table == vram_index \div 1024
    IN  CASE m = "Vertical" /\ name_table \in {2, 3} -> vram_index - 2048
          [] m = "Horizontal" /\ name_table = 2 -> vram_index - 1024
          [] m = "Horizontal" /\ name_table = 1 -> vram_index - 1024
          [] m = "Horizontal" /\ name_table = 3 -> vram_index - 2048
          [] OTHER -> vram_index

mirror_vram_addr(m, addr) ==
    LET mirrored_vram == BitAnd(addr, MIRROR_DOWN_MASK)
        vram_index == mirrored_vram - 8192
        name_table == vram_index \div 1024
    IN  CASE m = "Vertical" /\ name_table \in {2, 3} -> vram_index - 2048
          [] m = "Horizontal" /\ name_table = 2 -> vram_index - 1024
          [] m = "Horizontal" /\ name_table = 1 -> vram_index - 1024
          [] m = "Horizontal" /\ name_table = 3 -> vram_index - 2048
          [] OTHER -> vram_index

(***************************************************************************)
(* Memories.  chr_rom is the byte vector handed to PPU::new: a record of   *)
(* its length and of the pattern that fills it.  vram maps the cells that  *)
(* were stored into; every other cell still holds the 0 of construction,   *)
(* and so do palette_table and oam_data.                                   *)
(***************************************************************************)
chr_rom_at(rom, i) == (rom.fill + i + (i \div 256)) % 256

vram_at(mem, i) == IF i \in DOMAIN mem THEN mem[i] ELSE 0

Mirrorings == {"Vertical", "Horizontal", "FourScreen"}

(***************************************************************************)
(* Inputs the bus may present.                                             *)
(***************************************************************************)
AddrBytes == {0, 40, 47, 62, 255}
CtrlBytes == {4, 251}
IncSteps == {1, 32}
VramCells == {0}
VramBytes == {102}
ChrRoms == {[len |-> n * CHR_ROM_PAGE_SIZE, fill |-> 1] : n \in 0..MaxChrPages}

call(op, arg, ret) == [op |-> op, arg |-> arg, ret |-> ret]

(***************************************************************************)
(* PPU::new, AddrRegister::new, ControlRegister::new                       *)
(***************************************************************************)
Init ==
    /\ value = <<0, 0>>
    /\ high_ptr = TRUE
    /\ ctrl = 0
    /\ internal_data_buf = 0
    /\ chr_rom \in ChrRoms
    /\ mirroring \in Mirrorings
    /\ vram = <<>>
    /\ palette_table = <<>>
    /\ oam_data = <<>>
    /\ panic = "none"
    /\ last = call("new", NoByte, NoByte)
    /\ nwrites = 0
    /\ advances = 0

\* PPU::write_to_ppu_addr -> AddrRegister::update
write_to_ppu_addr(data) ==
    /\ panic = "none"
    /\ LET r == update(value, high_ptr, data)
       IN  /\ value' = r.value
           /\ high_ptr' = r.high_ptr
    /\ nwrites' = (nwrites + 1) % (2 * MaxWritePairs)
    /\ last' = call("write_to_ppu_addr", data, NoByte)
    /\ UNCHANGED <<ctrl, internal_data_buf, chr_rom, mirroring, palette_table, oam_data, vram, panic, advances>>

\* PPU::write_to_ctrl -> ControlRegister::update
write_to_ctrl(data) ==
    /\ panic = "none"
    /\ ctrl' = data
    /\ last' = call("write_to_ctrl", data, NoByte)
    /\ UNCHANGED <<value, high_ptr, internal_data_buf, chr_rom, mirroring, palette_table, oam_data, vram,
                   panic, nwrites, advances>>

\* AddrRegister::reset_latch
reset_latch ==
    /\ panic = "none"
    /\ high_ptr' = TRUE
    /\ nwrites' = 0
    /\ last' = call("reset_latch", NoByte, NoByte)
    /\ UNCHANGED <<value, ctrl, internal_data_buf, chr_rom, mirroring, palette_table, oam_data, vram,
                   panic, advances>>

\* AddrRegister::increment called on the public addr field
addr_increment(inc) ==
    /\ panic = "none"
    /\ advances < MaxAdvances
    /\ value' = increment(value, inc)
    /\ advances' = advances + 1
    /\ last' = call("increment", inc, NoByte)
    /\ UNCHANGED <<high_ptr, ctrl, internal_data_buf, chr_rom, mirroring, palette_table, oam_data, vram,
                   panic, nwrites>>

\* read_arm serving the alias range from the nametable arm
read_arm_alias_as_vram(addr) ==
    CASE addr <= 8191 -> "chr_rom"
      [] addr >= 8192 /\ addr <= 16127 -> "vram"
      [] OTHER -> "unexpected_access"

\* which arm of read_data's match the address selects
read_arm(addr) ==
    CASE addr <= 8191 -> "chr_rom"
      [] addr >= 8192 /\ addr <= 12287 -> "vram"
      [] addr >= 12288 /\ addr <= 16127 -> "alias_range"
      [] OTHER -> "unexpected_access"

\* the outcome of read_data's match on the address read before the increment:
\* the byte returned (NoByte when the call panics), the buffer and the panic
read_outcome(addr, buf, rom, m, mem) ==
    LET arm == read_arm(addr)
        idx == mirror_vram_addr(m, addr)
    IN  CASE arm = "chr_rom" ->
               IF addr < rom.len
               THEN [ret |-> buf, buf |-> chr_rom_at(rom, addr), panic |-> "none"]
               ELSE [ret |-> NoByte, buf |-> buf, panic |-> "chr_rom_index"]
          [] arm = "vram" ->
               IF idx < VRAM_SIZE
               THEN [ret |-> buf, buf |-> vram_at(mem, idx), panic |-> "none"]
               ELSE [ret |-> NoByte, buf |-> buf, panic |-> "vram_index"]
          [] OTHER -> [ret |-> NoByte, buf |-> buf, panic |-> arm]

\* read_data that also resets the address latch
read_data_resets_latch ==
    /\ panic = "none"
    /\ advances < MaxAdvances
    /\ LET addr == get(value)
           out == read_outcome(addr, internal_data_buf, chr_rom, mirroring, vram)
       IN  /\ value' = increment(value, vram_addr_increment(ctrl))
           /\ internal_data_buf' = out.buf
           /\ panic' = out.panic
           /\ last' = call("read_data", addr, out.ret)
    /\ advances' = advances + 1
    /\ high_ptr' = TRUE
    /\ UNCHANGED <<ctrl, chr_rom, mirroring, palette_table, oam_data, vram, nwrites>>

\* PPU::read_data
read_data ==
    /\ panic = "none"
    /\ advances < MaxAdvances
    /\ LET addr == get(value)
           out == read_outcome(addr, internal_data_buf, chr_rom, mirroring, vram)
       IN  /\ value' = increment(value, vram_addr_increment(ctrl))
           /\ internal_data_buf' = out.buf
           /\ panic' = out.panic
           /\ last' = call("read_data", addr, out.ret)
    /\ advances' = advances + 1
    /\ UNCHANGED <<high_ptr, ctrl, chr_rom, mirroring, palette_table, oam_data, vram, nwrites>>

\* a store into the public vram field by the owner of the engine
set_vram(i, b) ==
    /\ panic = "none"
    /\ i \in DOMAIN vram \/ Cardinality(DOMAIN vram) < MaxVramWrites
    /\ vram' = [j \in DOMAIN vram \cup {i} |-> IF j = i THEN b ELSE vram[j]]
    /\ last' = call("set_vram", b, NoByte)
    /\ UNCHANGED <<value, high_ptr, ctrl, internal_data_buf, chr_rom, mirroring, palette_table, oam_data,
                   panic, nwrites, advances>>

Next ==
    \/ \E data \in AddrBytes : write_to_ppu_addr(data)
    \/ \E data \in CtrlBytes : write_to_ctrl(data)
    \/ reset_latch
    \/ \E inc \in IncSteps : addr_increment(inc)
    \/ read_data
    \/ \E i \in VramCells, b \in VramBytes : set_vram(i, b)

Spec == Init /\ [][Next]_vars

(***************************************************************************)
(* Specifications that exercise one operation over its whole input range.  *)
(***************************************************************************)
split(a) == <<a \div 256, a % 256>>

\* an engine whose address port holds a, otherwise as constructed
EngineAt(a) ==
    /\ value = split(a)
    /\ high_ptr = TRUE
    /\ ctrl = 0
    /\ internal_data_buf = 0
    /\ chr_rom = [len |-> CHR_ROM_PAGE_SIZE, fill |-> 1]
    /\ vram = <<>>
    /\ palette_table = <<>>
    /\ oam_data = <<>>
    /\ panic = "none"
    /\ last = call("new", NoByte, NoByte)
    /\ nwrites = 0
    /\ advances = 0

\* two address-port writes of arbitrary bytes, flip-flop awaiting the high byte
InitAddr ==
    /\ \E a \in {0, 10271, 16383} : EngineAt(a)
    /\ mirroring = "Horizontal"

NextAddr ==
    \E data \in Byte :
        /\ nwrites < 2
        /\ last.op \in {"new", "write_to_ppu_addr"}
        /\ write_to_ppu_addr(data)

SpecAddr == InitAddr /\ [][NextAddr]_vars

\* one increment from every 14-bit address
InitInc ==
    /\ \E a \in 0..16383 : EngineAt(a)
    /\ mirroring = "Horizontal"

NextInc ==
    \E inc \in IncSteps :
        /\ last.op = "new"
        /\ addr_increment(inc)

SpecInc == InitInc /\ [][NextInc]_vars

\* one call of mirror_vram_addr on every nametable-region address
InitMirror ==
    /\ \E a \in 8192..16127 : EngineAt(a)
    /\ mirroring \in Mirrorings

mirror_step ==
    /\ last.op = "new"
    /\ last' = call("mirror_vram_addr", get(value), mirror_vram_addr(mirroring, get(value)))
    /\ UNCHANGED <<value, high_ptr, ctrl, internal_data_buf, chr_rom, mirroring, palette_table, oam_data, vram,
                   panic, nwrites, advances>>

NextMirror == mirror_step

SpecMirror == InitMirror /\ [][NextMirror]_vars

(***************************************************************************)
(* Cartridge loader (src/src/cartridge.rs).  An image is a record of its   *)
(* header bytes (at most 16, fewer when the image is shorter than a       *)
(* header) and of the byte vector that follows the header.               *)
(***************************************************************************)
\* largest program-page count of the images explored
MaxPrgPages == 1

PRG_ROM_PAGE_SIZE == 16384
NES_TAG == <<78, 69, 83, 26>>

\* bitwise or of two naturals, bit by bit
RECURSIVE BitOr(_, _)
BitOr(a, b) ==
    IF a = 0 THEN b
    ELSE IF b = 0 THEN a
    ELSE (IF a % 2 = 1 \/ b % 2 = 1 THEN 1 ELSE 0) + 2 * BitOr(a \div 2, b \div 2)

\* raw.len()
raw_len(raw) == Len(raw.hdr) + raw.body.len

\* raw[i]
raw_at(raw, i) ==
    IF i < Len(raw.hdr) THEN raw.hdr[i + 1] ELSE chr_rom_at(raw.body, i - 16)

\* raw[from..to].to_vec(), from at a 256-byte boundary behind the header:
\* the vector of to - from bytes whose first byte is raw[from]
slice(raw, from, to) ==
    [len |-> to - from, fill |-> IF to > from THEN raw_at(raw, from) ELSE 0]

\* the magic test comparing three bytes only
has_tag_3(raw) == SubSeq(raw.hdr, 1, 3) = SubSeq(NES_TAG, 1, 3)

\* &raw[0..4] == NES_TAG
has_tag(raw) == SubSeq(raw.hdr, 1, 4) = NES_TAG

\* the mapper with its nibbles taken from the wrong bytes
mapper_swapped(b6, b7) == BitOr(BitAnd(b6, 240), b7 \div 16)

\* (raw[7] & 0b1111_0000) | (raw[6] >> 4)
mapper(b6, b7) == BitOr(BitAnd(b7, 240), b6 \div 16)

\* the version field read from bits 0-1
ines_ver_bits01(b7) == BitAnd(b7, 3)

\* (raw[7] >> 2) & 0b11
ines_ver(b7) == BitAnd(b7 \div 4, 3)

\* the mirroring without the precedence of the four-screen bit
screen_mirroring_bit0_first(b6) ==
    LET four_screen == BitAnd(b6, 8) # 0
        vertical_mirroring == BitAnd(b6, 1) # 0
    IN  CASE vertical_mirroring -> "Vertical"
          [] ~vertical_mirroring /\ four_screen -> "FourScreen"
          [] OTHER -> "Horizontal"

screen_mirroring(b6) ==
    LET four_screen == BitAnd(b6, 8) # 0
        vertical_mirroring == BitAnd(b6, 1) # 0
    IN  CASE four_screen -> "FourScreen"
          [] ~four_screen /\ vertical_mirroring -> "Vertical"
          [] OTHER -> "Horizontal"

\* the program data start that never skips the trainer
prg_rom_start_no_trainer(b6) == 16

prg_rom_start(b6) == 16 + (IF BitAnd(b6, 4) # 0 THEN 512 ELSE 0)

NoRom == [prg_rom |-> [len |-> 0, fill |-> 0], chr_rom |-> [len |-> 0, fill |-> 0],
          mapper |-> 0, mirror |-> "none"]

Ok(rom) == [kind |-> "Ok", err |-> "", rom |-> rom]
Err(msg) == [kind |-> "Err", err |-> msg, rom |-> NoRom]
\* an index or a slice range past the end of raw aborts the call
Abort(what) == [kind |-> "panic", err |-> what, rom |-> NoRom]

\* NesRom::new
NesRom_new(raw) ==
    IF raw_len(raw) < 4 THEN Abort("range end index 4 out of range")
    ELSE IF ~has_tag(raw) THEN Err("File is not in iNES file format")
    ELSE IF raw_len(raw) < 8 THEN Abort("index 7 out of bounds")
    ELSE
      LET b6 == raw_at(raw, 6)
          b7 == raw_at(raw, 7)
          prg_rom_size == raw_at(raw, 4) * PRG_ROM_PAGE_SIZE
          chr_rom_size == raw_at(raw, 5) * CHR_ROM_PAGE_SIZE
          chr_rom_start == prg_rom_start(b6) + prg_rom_size
      IN  IF ines_ver(b7) # 0 THEN Err("NES2.0 format is not supported")
          ELSE IF prg_rom_start(b6) + prg_rom_size > raw_len(raw)
               THEN Abort("prg_rom range out of range")
          ELSE IF chr_rom_start + chr_rom_size > raw_len(raw)
               THEN Abort("chr_rom range out of range")
          ELSE Ok([prg_rom |-> slice(raw, prg_rom_start(b6), prg_rom_start(b6) + prg_rom_size),
                   chr_rom |-> slice(raw, chr_rom_start, chr_rom_start + chr_rom_size),
                   mapper |-> mapper(b6, b7),
                   mirror |-> screen_mirroring(b6)])

(***************************************************************************)
(* Images handed to the loader.                                            *)
(***************************************************************************)
Tags == {NES_TAG, <<78, 69, 83, 0>>, <<0, 69, 83, 26>>}
Flags6 == {0, 1, 2, 4, 5, 8, 9, 12, 13, 16, 240, 246, 255}
Flags7 == {0, 1, 2, 3, 4, 8, 12, 32, 240, 243, 255}
PadBytes == {0, 255}
ShortLens == {0, 3, 4, 7, 8, 15}

header(tag, b4, b5, b6, b7, pad) == tag \o <<b4, b5, b6, b7>> \o [i \in 1..8 |-> pad]

\* the bytes a header announces behind itself
announced(b4, b5, b6) ==
    (IF (b6 \div 4) % 2 = 1 THEN 512 ELSE 0)
      + b4 * PRG_ROM_PAGE_SIZE + b5 * CHR_ROM_PAGE_SIZE

\* for every header: the image cut inside the header, the image without a
\* body, the image one byte too short, the exact image and a longer one
RawImages ==
    UNION {
      LET h == header(tag, b4, b5, b6, b7, pad)
          n == announced(b4, b5, b6)
      IN  {[hdr |-> SubSeq(h, 1, k), body |-> [len |-> 0, fill |-> 1]] : k \in ShortLens}
            \cup {[hdr |-> h, body |-> [len |-> m, fill |-> 1]] :
                    m \in {0, n, n + 5} \cup (IF n > 0 THEN {n - 1} ELSE {})}
      : tag \in Tags, b4 \in 0..MaxPrgPages, b5 \in 0..MaxChrPages,
        b6 \in Flags6, b7 \in Flags7, pad \in PadBytes }

\* one call of NesRom::new on every image
InitRom ==
    /\ EngineAt(0)
    /\ mirroring = "Horizontal"

give_image(raw) ==
    /\ last.op = "new"
    /\ last' = call("game_codes", raw, NoByte)
    /\ UNCHANGED <<value, high_ptr, ctrl, internal_data_buf, chr_rom, mirroring,
                   palette_table, oam_data, vram, panic, nwrites, advances>>

parse ==
    /\ last.op = "game_codes"
    /\ last' = call("NesRom::new", last.arg, NesRom_new(last.arg))
    /\ UNCHANGED <<value, high_ptr, ctrl, internal_data_buf, chr_rom, mirroring,
                   palette_table, oam_data, vram, panic, nwrites, advances>>

NextRom ==
    \/ /\ last.op = "new"
       /\ \E raw \in RawImages : give_image(raw)
    \/ parse

SpecRom == InitRom /\ [][NextRom]_vars

\* an engine constructed from the character data and the mirroring of a
\* cartridge record that NesRom::new accepted
InitCart ==
    \E raw \in RawImages :
        LET loaded == NesRom_new(raw)
        IN  /\ loaded.kind = "Ok"
            /\ chr_rom = loaded.rom.chr_rom
            /\ mirroring = loaded.rom.mirror
            /\ value = <<0, 0>>
            /\ high_ptr = TRUE
            /\ ctrl = 0
            /\ internal_data_buf = 0
            /\ vram = <<>>
            /\ palette_table = <<>>
            /\ oam_data = <<>>
            /\ panic = "none"
            /\ last = call("new", NoByte, NoByte)
            /\ nwrites = 0
            /\ advances = 0

NextCart ==
    \/ \E data \in AddrBytes : write_to_ppu_addr(data)
    \/ \E data \in CtrlBytes : write_to_ctrl(data)
    \/ read_data

SpecCart == InitCart /\ [][NextCart]_vars

(***************************************************************************)
(* Properties                                                              *)
(***************************************************************************)
is_read == last'.op = "read_data"
is_addr_write == last'.op = "write_to_ppu_addr"

\* C1: in every reachable state the address port's combined value
\* (high * 256 + low) is at most 0x3FFF.
C1_AddrMasked == get(value) <= 16383

\* a write of 0xFF to the high half was masked down to 0x3F
C1_Witness ==
    /\ last.op = "write_to_ppu_addr"
    /\ last.arg = 255
    /\ ~high_ptr
    /\ value[1] = 63

\* C2: the flip-flop starts awaiting the high byte; every address-port write
\* flips it, and the k-th write since construction or since a reset_latch
\* stores into the high byte when k is odd and into the low byte when k is
\* even; reset_latch leaves the flip-flop awaiting the high byte.
C2_FlipFlop ==
    /\ high_ptr = TRUE
    /\ [][/\ is_addr_write =>
               /\ high_ptr' = ~high_ptr
               /\ IF nwrites' % 2 = 1
                  THEN high_ptr /\ value'[1] = last'.arg % 64 /\ value'[2] = value[2]
                  ELSE ~high_ptr /\ value'[2] = last'.arg /\ value'[1] = value[1]
          /\ last'.op = "reset_latch" => high_ptr' /\ nwrites' = 0]_vars

\* the third write since construction or reset went to the high byte
C2_Witness ==
    /\ last.op = "write_to_ppu_addr"
    /\ nwrites = 3
    /\ ~high_ptr
    /\ value[1] = last.arg % 64
    /\ value[1] # value[2]

\* C3: with the flip-flop awaiting the high byte, writing h and then l makes
\* the address port read (h mod 64) * 256 + l, for all bytes h and l.
C3_TwoWrites ==
    [][(last.op = "write_to_ppu_addr" /\ nwrites = 1 /\ is_addr_write)
          => get(value') = (last.arg % 64) * 256 + last'.arg]_vars

\* 0xFF, 0xFF was written and the port reads 0x3FFF
C3_Witness ==
    /\ last.op = "write_to_ppu_addr"
    /\ nwrites = 2
    /\ last.arg = 255
    /\ get(value) = 16383

\* C4: increment(step) takes the address a to (a + step) mod 0x4000, for every
\* 14-bit address a and every step in {1, 32}.
C4_Increment ==
    [][(last'.op = "increment" /\ last'.arg \in {1, 32})
          => get(value') = (get(value) + last'.arg) % 16384]_vars

\* 0x20FF was incremented by 1 and carried into the high byte: 0x2100
C4_Witness ==
    /\ last.op = "increment"
    /\ last.arg = 1
    /\ value = <<33, 0>>

\* the byte the memory holds at a data-port address below 0x3000
memory_byte(addr) ==
    IF addr <= 8191 THEN chr_rom_at(chr_rom, addr)
    ELSE vram_at(vram, mirror_vram_addr(mirroring, addr))

\* C5: every data-port read at an address in 0x0000-0x2FFF returns the read
\* buffer's content from before the call and leaves the buffer holding the
\* memory byte at that address.
C5_BufferedRead ==
    [][(is_read /\ get(value) <= 12287)
          => /\ last'.ret = internal_data_buf
             /\ internal_data_buf' = memory_byte(get(value))]_vars

\* C6: for every mirroring mode and every raw address in 0x2000-0x3EFF,
\* mirror_vram_addr returns an index in 0..2047.
C6_IndexInStore ==
    last.op = "mirror_vram_addr" => last.ret \in 0..(VRAM_SIZE - 1)

\* the two physical banks a logical nametable address folds onto
bank0(a) == a % 1024
bank1(a) == 1024 + (a % 1024)

\* C7: in Vertical mode 0x2000+o and 0x2800+o map to o, and 0x2400+o and
\* 0x2C00+o map to 0x400+o, for every o in 0..0x3FF.
C7_Vertical ==
    (last.op = "mirror_vram_addr" /\ mirroring = "Vertical" /\ last.arg <= 12287)
       => last.ret = IF (last.arg \div 1024) \in {8, 10}
                     THEN bank0(last.arg) ELSE bank1(last.arg)

\* 0x2800 was mirrored onto index 0 in Vertical mode
C7_Witness ==
    /\ last = call("mirror_vram_addr", 10240, 0)
    /\ mirroring = "Vertical"

\* C8: in Horizontal mode 0x2000+o and 0x2400+o map to o, and 0x2800+o and
\* 0x2C00+o map to 0x400+o, for every o in 0..0x3FF.
C8_Horizontal ==
    (last.op = "mirror_vram_addr" /\ mirroring = "Horizontal" /\ last.arg <= 12287)
       => last.ret = IF (last.arg \div 1024) \in {8, 9}
                     THEN bank0(last.arg) ELSE bank1(last.arg)

\* 0x2C00 was mirrored onto index 0x400 in Horizontal mode
C8_Witness ==
    /\ last = call("mirror_vram_addr", 11264, 1024)
    /\ mirroring = "Horizontal"

\* C9: a data-port read whose address before the read lies in 0x3000-0x3EFF
\* panics in the alias-range arm: it returns no byte and leaves the read
\* buffer unchanged.
C9_AliasRangeFatal ==
    [][(is_read /\ get(value) >= 12288 /\ get(value) <= 16127)
          => /\ last'.ret = NoByte
             /\ panic' = "alias_range"
             /\ internal_data_buf' = internal_data_buf]_vars

\* a read in the alias range panicked while the buffer held a fetched byte
C9_Witness ==
    /\ panic = "alias_range"
    /\ last.op = "read_data"
    /\ last.arg >= 12288 /\ last.arg <= 16127
    /\ internal_data_buf # 0

\* C10: read_data never takes the arm for any other address.
C10_OtherArmUnreachable == panic # "unexpected_access"

\* C17: every data-port read, whatever arm it takes and whether or not it
\* panics, advances the address port from a to (a + step) mod 0x4000, where
\* step is 32 if bit 2 of the control register is set and 1 otherwise.
C17_ReadAdvances ==
    [][is_read =>
          get(value') = (get(value) + (IF (ctrl \div 4) % 2 = 1 THEN 32 ELSE 1)) % 16384]_vars

\* a read in the alias range panicked and still advanced the address by 32
C17_Witness ==
    /\ last.op = "read_data"
    /\ panic = "alias_range"
    /\ ctrl = 4
    /\ get(value) = last.arg + 32

\* C18: for every mirroring mode and every raw address a in 0x3000-0x3EFF,
\* mirror_vram_addr(a) equals mirror_vram_addr(a - 0x1000).
C18_MirrorRangeAliased ==
    (last.op = "mirror_vram_addr" /\ last.arg >= 12288 /\ last.arg <= 16127)
       => last.ret = mirror_vram_addr(mirroring, last.arg - 4096)

\* 0x3C00 was mirrored in Vertical mode onto index 0x400, as 0x2C00 is
C18_Witness ==
    /\ last = call("mirror_vram_addr", 15360, 1024)
    /\ mirroring = "Vertical"

\* C19: a data-port read changes neither the flip-flop, the control register,
\* character memory, nametable memory, palette memory nor object-attribute
\* memory; a control-register write changes neither the address port, the
\* flip-flop nor the read buffer.
C19_Frame ==
    [][/\ is_read =>
            UNCHANGED <<high_ptr, ctrl, chr_rom, vram, palette_table, oam_data>>
       /\ last'.op = "write_to_ctrl" =>
            UNCHANGED <<value, high_ptr, internal_data_buf>>]_vars

\* a read returned a byte while the flip-flop awaited the low byte, the
\* control register was nonzero and a nametable cell had been stored into
C19_Witness ==
    /\ last.op = "read_data"
    /\ last.ret # NoByte
    /\ ~high_ptr
    /\ ctrl = 4
    /\ vram # <<>>

\* NesRom::new has been called on the image last.arg and gave last.ret
parsed == last.op = "NesRom::new"

\* the image starts with the four bytes 4E 45 53 1A
magic_ok(raw) ==
    /\ Len(raw.hdr) >= 4
    /\ raw.hdr[1] = 78 /\ raw.hdr[2] = 69 /\ raw.hdr[3] = 83 /\ raw.hdr[4] = 26

\* the image is shorter than a header, or shorter than its header announces
too_short(raw) ==
    \/ raw_len(raw) < 16
    \/ 16 + announced(raw.hdr[5], raw.hdr[6], raw.hdr[7]) > raw_len(raw)

\* C11: for every input shorter than the 16-byte header, or whose header
\* announces more bytes than the input has, parse returns an error value
\* and never aborts.
C11_ShortInputIsError ==
    (parsed /\ too_short(last.arg)) => last.ret.kind = "Err"

\* C12: for every input with a valid magic signature, parse fails with the
\* unsupported-format error and no record exactly when bits 0-1 of header
\* byte 7 are nonzero.
C12_VersionBits01 ==
    (parsed /\ magic_ok(last.arg) /\ Len(last.arg.hdr) >= 8)
       => IF last.arg.hdr[8] % 4 # 0
          THEN last.ret.kind = "Err" /\ last.ret.err = "NES2.0 format is not supported"
          ELSE last.ret.err # "NES2.0 format is not supported"

\* C12 as amended: for every input with a valid magic signature, parse fails
\* with the unsupported-format error and no record when bits 2-3 of header
\* byte 7 are nonzero, and the version check does not reject the input when
\* they are zero.
C12_VersionBits23 ==
    (parsed /\ magic_ok(last.arg) /\ Len(last.arg.hdr) >= 8)
       => IF (last.arg.hdr[8] \div 4) % 4 # 0
          THEN /\ last.ret.kind = "Err"
               /\ last.ret.err = "NES2.0 format is not supported"
               /\ last.ret.rom = NoRom
          ELSE last.ret.err # "NES2.0 format is not supported"

\* a header whose byte 7 has only bit 2 set was rejected as unsupported
C12_Witness ==
    /\ parsed
    /\ magic_ok(last.arg)
    /\ Len(last.arg.hdr) = 16
    /\ last.arg.hdr[8] = 4
    /\ last.ret.err = "NES2.0 format is not supported"

\* C13: for every input of at least 4 bytes whose first four bytes differ
\* from 4E 45 53 1A, parse returns the invalid-format error and no record,
\* whatever the other header bytes hold.
C13_BadMagic ==
    (parsed /\ Len(last.arg.hdr) >= 4 /\ ~magic_ok(last.arg))
       => /\ last.ret.kind = "Err"
          /\ last.ret.err = "File is not in iNES file format"
          /\ last.ret.rom = NoRom

\* an image whose fourth byte alone is wrong and whose byte 7 has every
\* version bit set was rejected as not being in the format
C13_Witness ==
    /\ parsed
    /\ Len(last.arg.hdr) = 16
    /\ last.arg.hdr[4] = 0
    /\ last.arg.hdr[8] = 255
    /\ last.ret.err = "File is not in iNES file format"

\* the image with the trainer flag cleared and the 512 trainer bytes removed
strip_trainer(raw) ==
    [hdr |-> [raw.hdr EXCEPT ![7] = raw.hdr[7] - 4],
     body |-> [len |-> raw.body.len - 512, fill |-> chr_rom_at(raw.body, 512)]]

\* C14: for every accepted input with page counts P and C and trainer flag t,
\* program_code is the P * 16384 bytes from offset 16 + 512 * t and
\* character_data the C * 8192 bytes right behind it; with the trainer flag
\* set both equal the slices of the image without flag and trainer bytes.
C14_Slices ==
    (parsed /\ last.ret.kind = "Ok")
       => LET raw == last.arg
              rom == last.ret.rom
              t == (raw.hdr[7] \div 4) % 2
              prg_len == raw.hdr[5] * 16384
              chr_len == raw.hdr[6] * 8192
              start == 16 + 512 * t
          IN  /\ rom.prg_rom.len = prg_len
              /\ \A k \in 0..(prg_len - 1) :
                    chr_rom_at(rom.prg_rom, k) = raw_at(raw, start + k)
              /\ rom.chr_rom.len = chr_len
              /\ \A k \in 0..(chr_len - 1) :
                    chr_rom_at(rom.chr_rom, k) = raw_at(raw, start + prg_len + k)
              /\ t = 1 =>
                    LET other == NesRom_new(strip_trainer(raw))
                    IN  /\ other.kind = "Ok"
                        /\ other.rom.prg_rom = rom.prg_rom
                        /\ other.rom.chr_rom = rom.chr_rom

\* an image with a trainer, one program page and one character page was
\* accepted
C14_Witness ==
    /\ parsed
    /\ last.ret.kind = "Ok"
    /\ (last.arg.hdr[7] \div 4) % 2 = 1
    /\ last.ret.rom.prg_rom.len = 16384
    /\ last.ret.rom.chr_rom.len = 8192

\* C15: for every accepted header, mirroring is FourScreen when bit 3 of
\* byte 6 is set, Vertical when bit 3 is clear and bit 0 set, Horizontal when
\* both are clear, whatever the other header bytes hold.
C15_Mirroring ==
    (parsed /\ last.ret.kind = "Ok")
       => last.ret.rom.mirror =
             IF (last.arg.hdr[7] \div 8) % 2 = 1 THEN "FourScreen"
             ELSE IF last.arg.hdr[7] % 2 = 1 THEN "Vertical"
             ELSE "Horizontal"

\* a header with bits 3 and 0 of byte 6 both set gave FourScreen
C15_Witness ==
    /\ parsed
    /\ last.ret.kind = "Ok"
    /\ last.arg.hdr[7] = 9
    /\ last.ret.rom.mirror = "FourScreen"

\* C16: for every accepted header, mapper_id is the high nibble of byte 7
\* followed by the high nibble of byte 6.
C16_Mapper ==
    (parsed /\ last.ret.kind = "Ok")
       => last.ret.rom.mapper =
             (last.arg.hdr[8] \div 16) * 16 + (last.arg.hdr[7] \div 16)

\* byte 6 = 0x10 and byte 7 = 0x20 gave mapper 0x21
C16_Witness ==
    /\ parsed
    /\ last.ret.kind = "Ok"
    /\ last.arg.hdr[7] = 16
    /\ last.arg.hdr[8] = 32
    /\ last.ret.rom.mapper = 33

\* C20: for an engine constructed from the character data of any accepted
\* cartridge record, every data-port read at an address in 0x0000-0x1FFF
\* indexes inside chr_rom and returns a byte.
C20_ChrReadInBounds ==
    [][(is_read /\ get(value) <= 8191)
          => last'.ret # NoByte /\ panic' = "none"]_vars

TypeOK ==
    /\ value \in Byte \X Byte
    /\ high_ptr \in BOOLEAN
    /\ ctrl \in Byte
    /\ internal_data_buf \in Byte
    /\ panic \in {"none", "chr_rom_index", "vram_index", "alias_range", "unexpected_access"}

====
